---- MODULE Spec2Model ----
(***************************************************************************)
(* check-side-effects: the side-effect extraction pipeline                 *)
(* (checkSideEffects, checker.ts) and the regression test harness (main,   *)
(* cli.ts), as a state machine over a small file system.                   *)
(*                                                                         *)
(* JavaScript strings are TLA+ strings, joined with \o.  A JavaScript      *)
(* value that may be undefined is a record: Str(s) or Undefined.  An       *)
(* absolute path is the sequence of its segments (<<"w", "a.js">> is       *)
(* /w/a.js); a path given by the user is a record that says whether it is  *)
(* absolute.  A thrown message is the sequence of the pieces the template  *)
(* string is built from.                                                   *)
(***************************************************************************)
EXTENDS Integers, Sequences, FiniteSets, TLC

(* ------------------------------------------------------------------ *)
(* Bounds of the model.                                                 *)
(* ------------------------------------------------------------------ *)

\* The longest test suite (testJson.tests) the model runs.
MaxTests == 2

\* The number of times the command is run, one run after the other, on the
\* same file tree.
MaxRuns == 2

\* The longest esModules list whose synthetic entry is looked at character
\* by character.
MaxModules == 2

\* The largest syntax tree the lint rule is applied to: its nodes, the
\* source file not counted.
MaxNodes == 3

(* ------------------------------------------------------------------ *)
(* JavaScript values and strings.                                       *)
(* ------------------------------------------------------------------ *)

Str(s) == [t |-> "string", v |-> s]

Undefined == [t |-> "undefined"]

Arr(a) == [t |-> "array", v |-> a]

\* A marker for "no value" in the model's own bookkeeping (not a JavaScript
\* value).
None == [t |-> "none"]

\* Array.prototype.join on an array of strings.
RECURSIVE JoinStr(_, _)
JoinStr(parts, sep) ==
  IF parts = <<>> THEN ""
  ELSE IF Len(parts) = 1 THEN parts[1]
  ELSE parts[1] \o sep \o JoinStr(Tail(parts), sep)

\* Array.prototype.join on an array kept as pieces: the separator is put
\* between the elements.
RECURSIVE JoinPieces(_, _)
JoinPieces(parts, sep) ==
  IF parts = <<>> THEN <<>>
  ELSE IF Len(parts) = 1 THEN <<parts[1]>>
  ELSE <<parts[1], sep>> \o JoinPieces(Tail(parts), sep)

(* ------------------------------------------------------------------ *)
(* Paths.                                                               *)
(* ------------------------------------------------------------------ *)

Rel(segs) == [abs |-> FALSE, segs |-> segs]

Abs(segs) == [abs |-> TRUE, segs |-> segs]

\* path.resolve(base, ref): an absolute ref stands, a relative one is taken
\* from base.  The result is an absolute path.
resolve(base, ref) == IF ref.abs THEN ref.segs ELSE base \o ref.segs

\* path.dirname of an absolute path; the root is its own parent.
dirname(p) == IF p = <<>> THEN <<>> ELSE SubSeq(p, 1, Len(p) - 1)

\* The text of an absolute path, with forward slashes
\* (resolve(...).replace(/\\/g, '/')).
RECURSIVE PathStr(_)
PathStr(p) == IF p = <<>> THEN "" ELSE "/" \o p[1] \o PathStr(Tail(p))

\* The text of a path as the user wrote it.
RefStr(ref) ==
  IF ref.abs THEN PathStr(ref.segs) ELSE JoinStr(ref.segs, "/")

(* ------------------------------------------------------------------ *)
(* The inputs the model draws from: a working directory, module         *)
(* references, output targets, baselines, and what the bundler makes of *)
(* an entry.                                                            *)
(* ------------------------------------------------------------------ *)

\* process.cwd() / --cwd.
Cwd == <<"w">>

\* os.tmpdir().
TmpRoot == <<"tmp">>

\* The test-suite file named by --test.
TestFileRef == Rel(<<"t.json">>)

\* A file named by --test that does not exist.
NoTestFileRef == Rel(<<"n.json">>)

\* The esModules lists a test case or the command line can give.  x.js and
\* y.js do not exist.
ModLists ==
  { <<Rel(<<"a.js">>)>>,
    <<Rel(<<"a.js">>), Rel(<<"b.js">>)>>,
    <<Rel(<<"x.js">>), Rel(<<"a.js">>), Rel(<<"y.js">>)>> }

\* The output targets: none, or a file.
OutTargets == { Undefined, Rel(<<"o.js">>) }

\* The expectedOutput references of test cases: one beside the suite, one
\* in a directory that does not exist yet.
BaselineRefs == { Rel(<<"e.txt">>), Rel(<<"d", "f.txt">>) }

\* Rollup's output entries: chunks carry code, assets do not.
Chunk(code) == [isAsset |-> FALSE, code |-> Str(code)]

Asset == [isAsset |-> TRUE, code |-> Undefined]

\* What the bundler does with an entry: rollup() rejects, or
\* write()/generate() rejects, or the bundle is emitted as a list of
\* outputs.
BundlerOutcomes ==
  { [rollup |-> "fault", emit |-> "fault", output |-> <<>>],
    [rollup |-> "ok", emit |-> "fault", output |-> <<>>],
    [rollup |-> "ok", emit |-> "ok", output |-> <<Chunk("")>>],
    [rollup |-> "ok", emit |-> "ok",
     output |-> <<Chunk("a;"), Asset, Chunk("b;")>>] }

\* The file tree before the first run: the modules, the suite, and one
\* baseline.
InitFiles ==
  (<<"w", "a.js">> :> "export const a = 1;") @@
  (<<"w", "b.js">> :> "window.b = 1;") @@
  (<<"w", "t.json">> :> "{tests}") @@
  (<<"w", "e.txt">> :> "a;\nb;")

InitDirs == { <<>>, Cwd, TmpRoot }

\* A test case of the suite file (interface Test).
Tests ==
  { t \in [esModules : ModLists, options : [output : OutTargets],
           expectedOutput : BaselineRefs] :
      \* a case whose modules are missing reaches neither the bundler nor
      \* the baseline: one such case is enough
      (\E i \in 1..Len(t.esModules) : t.esModules[i].segs[1] \in {"x.js", "y.js"})
         => t.expectedOutput = Rel(<<"e.txt">>) /\ t.options.output = Undefined }

Suites == UNION { [1..n -> Tests] : n \in 1..MaxTests }

(* ------------------------------------------------------------------ *)
(* State.                                                               *)
(* ------------------------------------------------------------------ *)

VARIABLES
  \* the environment
  options,            \* the parsed command line (minimist)
  testJson,           \* the parsed suite file: [tests |-> <<...>>]
  bundler,            \* what the bundler makes of each esModules list
  files,              \* the file tree: absolute path -> content
  dirs,               \* the directories that exist
  tmpCount,           \* how many scratch directories mkdtempSync has made
  run,                \* the number of the current run of the command
  \* main
  pc,                 \* where main is
  testIdx,            \* the index of the test the for loop is at
  failedExpectations, \* const failedExpectations: string[]
  result,             \* const result = await checkSideEffects(...)
  thrown,             \* what main threw, or None
  returned,           \* what main returned (its promise's value), or None
  stdout,             \* the lines console.log printed, in order
  \* checkSideEffects (one activation at a time is awaited by main)
  cpc,                \* where checkSideEffects is
  args,               \* its options argument
  resolvedEsModules,
  outputFilePath,
  tmpDir,
  tmpInputFilename,
  outputs,
  cseResult,          \* the value or error its promise settled with
  \* history, for the claims
  inflight,           \* how many pipeline invocations are started and not settled
  started,            \* the test indices whose invocation was started, in order
  compared,           \* the comparisons made, in order
  written,            \* the baseline writes made, in order
  rollupCalls,        \* how often rollup() was called in this activation
  atCall,             \* the file tree when checkSideEffects was called
  prevRun,            \* how the previous run ended, or None
  invocations,        \* the invocations of checkSideEffects that returned in this run, in order
  \* bin/check-side-effects, the process
  bpc,                \* "running", or "exited" once main's promise was handled
  exitCode,           \* the exit status of the process
  stderr              \* what console.error printed, in order

envVars == <<options, testJson, bundler>>

fsVars == <<files, dirs, tmpCount>>

mainVars == <<pc, testIdx, failedExpectations, result, thrown, returned, stdout>>

cseVars == <<cpc, args, resolvedEsModules, outputFilePath, tmpDir,
             tmpInputFilename, outputs, cseResult>>

histVars == <<inflight, started, compared, written, rollupCalls, atCall, prevRun,
              invocations>>

binVars == <<bpc, exitCode, stderr>>

\* The state of the command: main, checkSideEffects and their environment.
progVars == <<envVars, fsVars, run, mainVars, cseVars, histVars, binVars>>

VARIABLES
  \* the synthetic entry, looked at character by character (SpecEntry)
  platform,           \* the platform path.resolve works for: "posix" or "win32"
  entryModules,       \* the esModules argument, as written
  entryStage,         \* "given", "resolved" or "written"
  entryResolved,      \* const resolvedEsModules
  entryWritten        \* the data written to tmpInputFilename

entryVars == <<platform, entryModules, entryStage, entryResolved, entryWritten>>

VARIABLES
  \* the lint rule no-toplevel-property-access (SpecRule)
  sourceFile,         \* the file linted: its name and its syntax tree
  ruleArguments,      \* this.getOptions().ruleArguments
  ruleStage,          \* "given" or "applied"
  failures,           \* the RuleFailure[] that Rule.apply returned
  walked              \* whether applyWithFunction(sourceFile, walk) was called

ruleVars == <<sourceFile, ruleArguments, ruleStage, failures, walked>>

VARIABLES
  \* the command line's way to the pipeline's configuration (SpecFlags)
  argv,               \* the flags written on the command line
  parsed,             \* minimist's result: const options
  cseOptions,         \* const checkSideEffectsOptions
  locals,             \* the parameters of checkSideEffects, defaults applied
  rollupConfig,       \* inputOptions, outputOptions and what is printed
  flagStage           \* "given", "parsed", "assembled", "bound" or "configured"

flagVars == <<argv, parsed, cseOptions, locals, rollupConfig, flagStage>>

\* The state of the specifications of the pure parts.
pureVars == <<entryVars, ruleVars, flagVars>>

vars == <<progVars, pureVars>>

(* ------------------------------------------------------------------ *)
(* The file system.                                                     *)
(* ------------------------------------------------------------------ *)

\* fs.existsSync.
existsSync(fs, ds, p) == p \in DOMAIN fs \/ p \in ds

\* fs.writeFileSync of a string: the file is created or replaced.
writeFile(fs, p, text) == [q \in DOMAIN fs \cup {p} |-> IF q = p THEN text ELSE fs[q]]

\* A bug: the file is left where it is.
unlinkNothing(fs, p) == fs

\* fs.unlinkSync.
unlink(fs, p) == [q \in DOMAIN fs \ {p} |-> fs[q]]

\* fs.rmdirSync.
rmdir(ds, p) == ds \ {p}

\* The directories _recursiveMkDir(path) leaves in existence: path and
\* each ancestor of it that did not exist.
RECURSIVE _recursiveMkDir(_, _, _)
_recursiveMkDir(fs, ds, path) ==
  IF ~existsSync(fs, ds, path)
  THEN _recursiveMkDir(fs, ds, dirname(path)) \cup {path}
  ELSE ds

(* ------------------------------------------------------------------ *)
(* checkSideEffects: its pure parts.                                    *)
(* ------------------------------------------------------------------ *)

\* const resolvedEsModules = esModules.map(m => resolve(cwd, m)...).
ResolvedEsModules(cwd, esModules) == 
  [i \in 1..Len(esModules) |-> resolve(cwd, esModules[i])]

\* A bug: only the first missing module is reported.
FirstMissingModule(fs, ds, resolved) ==
  LET missing == SelectSeq(resolved, LAMBDA m : ~existsSync(fs, ds, m))
  IN  IF missing = <<>> THEN <<>> ELSE <<missing[1]>>

\* const missingModules = resolvedEsModules.filter(m => !existsSync(m)).
MissingModules(fs, ds, resolved) ==
  SelectSeq(resolved, LAMBDA m : ~existsSync(fs, ds, m))

\* The string thrown when modules are missing, as the pieces of the
\* template: missingModules.join() puts a comma between the paths.
MissingMessage(missing) ==
  <<"Could not find the following modules: ">>
  \o JoinPieces([i \in 1..Len(missing) |-> PathStr(missing[i])], ",")
  \o <<".", "\nPlease provide relative/absolute paths to the ES modules you want to check.">>

\* The text of the synthetic entry:
\* resolvedEsModules.map(m => `import '${m}';`).join('\n').
EntryText(resolved) ==
  JoinStr([i \in 1..Len(resolved) |-> "import '" \o PathStr(resolved[i]) \o "';"], "\n")

\* A bug: the assets are not filtered out and count as empty code.
ChunkCodeWithAssets(out) ==
  JoinStr([i \in 1..Len(out) |-> IF out[i].isAsset THEN "" ELSE out[i].code.v], "\n")

\* A bug: the name of the scratch directory gets into the code.
ChunkCodeOfScratch(out) ==
  JoinStr([i \in 1..Len(out) |-> IF out[i].isAsset THEN "" ELSE out[i].code.v], "")
    \o "//" \o ToString(tmpCount)

\* outputs.filter(c => !c.isAsset).map(chunk => chunk.code).join('\n').
ChunkCode(out) ==
  LET chunks == SelectSeq(out, LAMBDA chunkOrAsset : ~chunkOrAsset.isAsset)
  IN  JoinStr([i \in 1..Len(chunks) |-> chunks[i].code.v], "\n")

\* The name of the source map bundle.write puts beside the output file.
MapPath(p) == SubSeq(p, 1, Len(p) - 1) \o <<p[Len(p)] \o ".map">>

\* The entries whose text the bundler can be handed: the synthetic entries
\* of the module lists whose modules all exist.
EntryTexts ==
  { EntryText(ResolvedEsModules(Cwd, l)) :
      l \in { m \in ModLists :
                MissingModules(InitFiles, InitDirs, ResolvedEsModules(Cwd, m)) = <<>> } }

\* Thrown values.
Thrown(kind, msg) == [kind |-> kind, msg |-> msg]

RollupFault == Thrown("fault", <<"rollup: could not build the graph">>)

EmitFault == Thrown("fault", <<"rollup: could not emit the bundle">>)

(* ------------------------------------------------------------------ *)
(* The synthetic entry, character by character.  A text is the sequence *)
(* of its pieces: a separator ("/" or "\\", one character each), a name  *)
(* that holds no separator, or a literal of the template string.        *)
(* ------------------------------------------------------------------ *)

\* The platforms of path.resolve.
Platforms == { "posix", "win32" }

\* process.cwd() as the platform writes it.
CwdText(pf) == IF pf = "win32" THEN <<"C:", "\\", "w">> ELSE <<"/", "w">>

\* The module references given: beside the working directory, in a
\* directory written with either separator, and from the root.
EntryRefs ==
  { <<"a.js">>,
    <<"d", "/", "a.js">>,
    <<"d", "\\", "a.js">>,
    <<"/", "r", "\\", "s", "\\", "a.js">> }

\* path.isAbsolute: posix knows one separator, win32 both.
isAbsoluteText(pf, m) ==
  m # <<>> /\ (m[1] = "/" \/ (pf = "win32" /\ m[1] = "\\"))

\* path.resolve(cwd, m) as a text.  On posix a backslash is a character of
\* a name and stays; on win32 both separators separate and the result is
\* written with backslashes, from the drive of the working directory.
resolveText(pf, cwd, m) ==
  IF pf = "win32"
  THEN LET native == [i \in 1..Len(m) |-> IF m[i] = "/" THEN "\\" ELSE m[i]]
       IN  IF isAbsoluteText(pf, m) THEN <<cwd[1]>> \o native
           ELSE cwd \o <<"\\">> \o native
  ELSE IF isAbsoluteText(pf, m) THEN m ELSE cwd \o <<"/">> \o m

\* A bug: .replace('\\', '/') replaces the first backslash only.
replaceFirstBackslash(text) ==
  [i \in 1..Len(text) |->
     IF text[i] = "\\" /\ (\A j \in 1..(i - 1) : text[j] # "\\") THEN "/" ELSE text[i]]

\* .replace(/\\/g, '/'): every backslash becomes a forward slash.
replaceBackslashes(text) ==
  [i \in 1..Len(text) |-> IF text[i] = "\\" THEN "/" ELSE text[i]]

\* esModules.map(m => resolve(cwd, m).replace(/\\/g, '/')), as texts.
ResolvedEsModulesText(pf, cwd, esModules) ==
  [i \in 1..Len(esModules) |-> replaceBackslashes(resolveText(pf, cwd, esModules[i]))]

\* Array.prototype.join on texts.
RECURSIVE JoinText(_, _)
JoinText(texts, sep) ==
  IF texts = <<>> THEN <<>>
  ELSE IF Len(texts) = 1 THEN texts[1]
  ELSE texts[1] \o <<sep>> \o JoinText(Tail(texts), sep)

\* resolvedEsModules.map(m => `import '${m}';`).join('\n'), as a text.
EntryData(resolved) ==
  JoinText([i \in 1..Len(resolved) |-> <<"import '">> \o resolved[i] \o <<"';">>], "\n")

\* No entry is being looked at.
EntryIdle ==
  /\ platform = "posix"
  /\ entryModules = <<>>
  /\ entryStage = "idle"
  /\ entryResolved = <<>>
  /\ entryWritten = <<>>

(* ------------------------------------------------------------------ *)
(* The lint rule no-toplevel-property-access.  A syntax tree is its     *)
(* nodes 1..n numbered in depth-first pre-order, the kind of each and   *)
(* the parent of each; 0 is the source file.                            *)
(* ------------------------------------------------------------------ *)

\* Rule.FAILURE_STRING.
FAILURE_STRING == "Avoid toplevel property access."

\* The kinds of node the callback stops at.
DefinitionKinds ==
  { "FunctionDeclaration", "FunctionExpression", "ClassDeclaration", "ClassExpression",
    "ArrowFunction", "MethodDeclaration", "InterfaceDeclaration" }

\* The kinds of node the callback fails.
AccessKinds == { "PropertyAccessExpression", "ElementAccessExpression" }

\* The kinds of node: the above, and one that is neither.
SyntaxKinds == DefinitionKinds \cup AccessKinds \cup { "ExpressionStatement" }

\* A bug: methods and interfaces are not taken as definitions.
isFunctionOrClass(kind) ==
  kind \in { "FunctionDeclaration", "FunctionExpression", "ClassDeclaration",
             "ClassExpression", "ArrowFunction" }

\* isFunctionDeclaration(node) || ... || isInterfaceDeclaration(node).
isDefinition(kind) == kind \in DefinitionKinds

\* isPropertyAccessExpression(node) || isElementAccessExpression(node).
isAccess(kind) == kind \in AccessKinds

\* The children of a node, in source order.
ChildrenOf(sf, node) ==
  SelectSeq([i \in 1..sf.n |-> i], LAMBDA i : sf.parent[i] = node)

\* ctx.addFailureAtNode(node, Rule.FAILURE_STRING).
Failure(node) == [node |-> node, message |-> FAILURE_STRING]

\* A bug: the callback does not descend into a node it has failed.
RECURSIVE cbStopAtAccess(_, _)
cbStopAtAccess(sf, node) ==
  IF isDefinition(sf.kind[node]) THEN <<>>
  ELSE IF isAccess(sf.kind[node]) THEN <<Failure(node)>>
  ELSE LET RECURSIVE Each(_)
           Each(children) ==
             IF children = <<>> THEN <<>>
             ELSE cbStopAtAccess(sf, children[1]) \o Each(Tail(children))
       IN  Each(ChildrenOf(sf, node))

\* The callback cb and forEachChild(node, cb), as the failures they add, in
\* the order they add them.  cb returns nothing, or what forEachChild
\* returns, which is nothing when no callback returned anything: so no
\* forEachChild ends before its last child.
RECURSIVE cb(_, _)
RECURSIVE forEachChild(_, _)
cb(sf, node) ==
  IF isDefinition(sf.kind[node]) THEN <<>>
  ELSE (IF isAccess(sf.kind[node]) THEN <<Failure(node)>> ELSE <<>>)
       \o forEachChild(sf, node)

forEachChild(sf, node) ==
  LET RECURSIVE Each(_)
      Each(children) ==
        IF children = <<>> THEN <<>>
        ELSE cb(sf, children[1]) \o Each(Tail(children))
  IN  Each(ChildrenOf(sf, node))

\* function walk(ctx): forEachChild(ctx.sourceFile, cb).
walk(sf) == forEachChild(sf, 0)

\* String.prototype.includes, on texts.
includes(text, part) ==
  \E k \in 0..(Len(text) - Len(part)) : SubSeq(text, k + 1, k + Len(part)) = part

\* A bug: every argument has to be in the file name.
everyIncluded(arguments, fileName) ==
  \A i \in 1..Len(arguments) : includes(fileName, arguments[i])

\* args.some(path => sourceFile.fileName.includes(path)).
someIncluded(arguments, fileName) ==
  \E i \in 1..Len(arguments) : includes(fileName, arguments[i])

\* No file is being linted.
RuleIdle ==
  /\ sourceFile = [fileName |-> <<>>, n |-> 0, parent |-> <<>>, kind |-> <<>>]
  /\ ruleArguments = <<>>
  /\ ruleStage = "idle"
  /\ failures = <<>>
  /\ walked = FALSE

(* ------------------------------------------------------------------ *)
(* From the command line to the configuration of the bundler.           *)
(* ------------------------------------------------------------------ *)

Bool(b) == [t |-> "boolean", v |-> b]

\* The boolean flags of the pipeline, by the name minimist gives them; each
\* but warnings has a dashed alias (pure-getters, ...).
BoolFlags ==
  { "pureGetters", "resolveExternals", "printDependencies", "useBuildOptimizer",
    "useMinifier", "warnings" }

\* minimist's default for each.
FlagDefault(f) == f \in { "useBuildOptimizer", "useMinifier" }

\* A command line: each boolean flag absent, given (--f) or negated
\* (--no-f); --output and --cwd absent or given with a value.
CommandLineFlags ==
  [bools : [BoolFlags -> {"absent", "given", "negated"}],
   output : {Undefined, Str("o.js")},
   cwd : {Undefined, Str("/v")}]

\* minimist(rawOpts.args, {...}): a boolean flag is as written or its
\* default, cwd is as written or process.cwd(), output is as written.
minimist(a) ==
  [f \in BoolFlags |->
     IF a.bools[f] = "absent" THEN Bool(FlagDefault(f)) ELSE Bool(a.bools[f] = "given")]
  @@ [output |-> a.output,
      cwd |-> IF a.cwd = Undefined THEN Str(PathStr(Cwd)) ELSE a.cwd]

\* const checkSideEffectsOptions = { esModules, cwd: options.cwd, ... } of
\* the branch without --test.
AssembleOptions(o) ==
  [cwd |-> o.cwd,
   output |-> o.output,
   pureGetters |-> o.pureGetters,
   resolveExternals |-> o.resolveExternals,
   printDependencies |-> o.printDependencies,
   useBuildOptimizer |-> o.useBuildOptimizer,
   useMinifier |-> o.useMinifier,
   warnings |-> o.warnings]

\* A destructured parameter with a default: the property of the argument,
\* or the default when the argument has none or has undefined.
Param(o, name, default) ==
  IF name \in DOMAIN o /\ o[name] # Undefined THEN o[name] ELSE default

\* The parameters of checkSideEffects.
BindParameters(o) ==
  [cwd |-> Param(o, "cwd", Str(PathStr(Cwd))),
   output |-> Param(o, "output", Undefined),
   propertyReadSideEffects |-> Param(o, "propertyReadSideEffects", Bool(TRUE)),
   resolveExternals |-> Param(o, "resolveExternals", Bool(FALSE)),
   printDependencies |-> Param(o, "printDependencies", Bool(FALSE)),
   useBuildOptimizer |-> Param(o, "useBuildOptimizer", Bool(TRUE)),
   useMinifier |-> Param(o, "useMinifier", Bool(TRUE)),
   warnings |-> Param(o, "warnings", Bool(FALSE))]

\* What the pipeline is run with: the plugins of inputOptions in order, its
\* treeshake option, whether warnings are silenced (onwarn), the file of
\* outputOptions, the directory paths are resolved from, and whether
\* bundle.watchFiles is printed.
Configure(l) ==
  [plugins |-> (IF l.resolveExternals.v THEN <<"nodeResolve">> ELSE <<>>)
               \o (IF l.useBuildOptimizer.v THEN <<"buildOptimizer">> ELSE <<>>)
               \o (IF l.useMinifier.v THEN <<"terser">> ELSE <<>>),
   propertyReadSideEffects |-> l.propertyReadSideEffects.v,
   silenced |-> ~l.warnings.v,
   file |-> IF l.output # Undefined /\ l.output.v # ""
            THEN Str(l.cwd.v \o "/" \o l.output.v)
            ELSE Undefined,
   resolveFrom |-> l.cwd.v,
   printWatchFiles |-> l.printDependencies.v]

\* No command line is being looked at.
FlagsIdle ==
  /\ argv = None
  /\ parsed = None
  /\ cseOptions = None
  /\ locals = None
  /\ rollupConfig = None
  /\ flagStage = "idle"

\* Nothing of the pure parts is being looked at.
PureIdle == EntryIdle /\ RuleIdle /\ FlagsIdle

(* ------------------------------------------------------------------ *)
(* The initial state: a command line, a suite, a bundler, a file tree.  *)
(* ------------------------------------------------------------------ *)

\* The command lines: --test t.json [--update], --test n.json, or modules
\* [--output o.js].
CommandLines ==
  { [test |-> TestFileRef, update |-> u, cwd |-> Cwd, modules |-> <<>>,
     output |-> Undefined] : u \in BOOLEAN }
  \cup
  { [test |-> NoTestFileRef, update |-> FALSE, cwd |-> Cwd, modules |-> <<>>,
     output |-> Undefined] }
  \cup
  { [test |-> Undefined, update |-> FALSE, cwd |-> Cwd, modules |-> m,
     output |-> o] : m \in ModLists \cup {<<>>}, o \in OutTargets }

\* No run of the command has left anything: the locals of main and of
\* checkSideEffects are unset and the process has printed nothing.
NothingRun ==
  /\ tmpCount = 0
  /\ run = 1
  /\ testIdx = 0
  /\ failedExpectations = <<>>
  /\ result = None
  /\ thrown = None
  /\ returned = None
  /\ stdout = <<>>
  /\ cpc = "idle"
  /\ args = None
  /\ resolvedEsModules = <<>>
  /\ outputFilePath = Undefined
  /\ tmpDir = Undefined
  /\ tmpInputFilename = Undefined
  /\ outputs = Undefined
  /\ cseResult = None
  /\ inflight = 0
  /\ started = <<>>
  /\ compared = <<>>
  /\ written = <<>>
  /\ rollupCalls = 0
  /\ atCall = [files |-> files, dirs |-> dirs]
  /\ prevRun = None
  /\ invocations = <<>>
  /\ exitCode = 0
  /\ stderr = <<>>

Init ==
  /\ options \in CommandLines
  /\ testJson \in IF options.test \in {Undefined, NoTestFileRef}
                  THEN {[tests |-> <<>>]}
                  ELSE {[tests |-> s] : s \in Suites}
  /\ bundler \in [EntryTexts -> BundlerOutcomes]
  \* what the bundler would make of an entry this command never builds is
  \* left out of the choice
  /\ \A e \in EntryTexts :
       e \notin { EntryText(ResolvedEsModules(Cwd, l)) :
                    l \in {options.modules}
                           \cup {testJson.tests[i].esModules : i \in 1..Len(testJson.tests)} }
         => bundler[e] = [rollup |-> "ok", emit |-> "ok", output |-> <<Chunk("")>>]
  /\ files = InitFiles
  /\ dirs = InitDirs
  /\ NothingRun
  /\ pc = "start"
  /\ bpc = "running"
  /\ PureIdle

(* ------------------------------------------------------------------ *)
(* checkSideEffects, one action for each stretch between two points     *)
(* where its effects can be observed.                                   *)
(* ------------------------------------------------------------------ *)

\* The call: the parameters are bound, nothing has run yet.
Call(a) ==
  /\ cpc' = "called"
  /\ args' = a
  /\ resolvedEsModules' = <<>>
  /\ outputFilePath' = Undefined
  /\ tmpDir' = Undefined
  /\ tmpInputFilename' = Undefined
  /\ outputs' = Undefined
  /\ cseResult' = None
  /\ rollupCalls' = 0
  /\ atCall' = [files |-> files, dirs |-> dirs]
  /\ inflight' = inflight + 1

\* A bug: the error is wrapped in one of checkSideEffects' own.
RejectWrapped(e) ==
  /\ cpc' = "threw"
  /\ cseResult' = Thrown(e.kind, <<"check-side-effects failed: ">> \o e.msg)
  /\ inflight' = inflight - 1

\* The promise of checkSideEffects rejects with e.
Reject(e) ==
  /\ cpc' = "threw"
  /\ cseResult' = e
  /\ inflight' = inflight - 1

\* Resolve the paths and verify the modules exist.
CSE_Validate ==
  /\ cpc = "called"
  /\ LET resolved == ResolvedEsModules(args.cwd, args.esModules)
         missingModules == MissingModules(files, dirs, resolved)
     IN  /\ resolvedEsModules' = resolved
         /\ outputFilePath' = IF args.output # Undefined
                              THEN Str(resolve(args.cwd, args.output))
                              ELSE Undefined
         /\ IF Len(missingModules) > 0
            THEN Reject(Thrown("missing", MissingMessage(missingModules)))
            ELSE /\ cpc' = "validated"
                 /\ UNCHANGED <<cseResult, inflight>>
  /\ UNCHANGED <<pureVars, binVars, envVars, fsVars, run, mainVars, args, tmpDir, tmpInputFilename,
                 outputs, started, compared, written, rollupCalls, atCall, prevRun, invocations>>

\* Write the temporary file that imports the modules, in a fresh scratch
\* directory.
CSE_WriteEntry ==
  /\ cpc = "validated"
  /\ LET dir == TmpRoot \o <<"check-side-effects-" \o ToString(tmpCount + 1)>>
         file == resolve(dir, Rel(<<"index.js">>))
     IN  /\ tmpCount' = tmpCount + 1
         /\ tmpDir' = Str(dir)
         /\ dirs' = dirs \cup {dir}
         /\ tmpInputFilename' = Str(file)
         /\ files' = writeFile(files, file, EntryText(resolvedEsModules))
  /\ cpc' = "rollup"
  /\ UNCHANGED <<pureVars, binVars, envVars, run, mainVars, args, resolvedEsModules, outputFilePath,
                 outputs, cseResult, histVars>>

\* const bundle = await rollup(inputOptions).
CSE_Rollup ==
  /\ cpc = "rollup"
  /\ rollupCalls' = rollupCalls + 1
  /\ IF bundler[files[tmpInputFilename.v]].rollup = "fault"
     THEN Reject(RollupFault)
     ELSE /\ cpc' = "bundled"
          /\ UNCHANGED <<cseResult, inflight>>
  /\ UNCHANGED <<pureVars, binVars, envVars, fsVars, run, mainVars, args, resolvedEsModules,
                 outputFilePath, tmpDir, tmpInputFilename, outputs, started,
                 compared, written, atCall, prevRun, invocations>>

\* await bundle.write(outputOptions): the bundle and its source map are
\* written to the output file path.
CSE_Write ==
  /\ cpc = "bundled"
  /\ outputFilePath # Undefined
  /\ IF bundler[files[tmpInputFilename.v]].emit = "fault"
     THEN /\ Reject(EmitFault)
          /\ UNCHANGED fsVars
     ELSE /\ cpc' = "emitted"
          /\ files' = writeFile(
                        writeFile(files, outputFilePath.v,
                                  ChunkCode(bundler[files[tmpInputFilename.v]].output)
                                    \o "\n//# sourceMappingURL="),
                        MapPath(outputFilePath.v), "{mappings}")
          /\ UNCHANGED <<dirs, tmpCount, cseResult, inflight>>
  /\ UNCHANGED <<pureVars, binVars, envVars, run, mainVars, args, resolvedEsModules, outputFilePath,
                 tmpDir, tmpInputFilename, outputs, started, compared, written,
                 rollupCalls, atCall, prevRun, invocations>>

\* outputs = (await bundle.generate(outputOptions)).output.
CSE_Generate ==
  /\ cpc = "bundled"
  /\ outputFilePath = Undefined
  /\ IF bundler[files[tmpInputFilename.v]].emit = "fault"
     THEN /\ Reject(EmitFault)
          /\ UNCHANGED outputs
     ELSE /\ cpc' = "emitted"
          /\ outputs' = Arr(bundler[files[tmpInputFilename.v]].output)
          /\ UNCHANGED <<cseResult, inflight>>
  /\ UNCHANGED <<pureVars, binVars, envVars, fsVars, run, mainVars, args, resolvedEsModules,
                 outputFilePath, tmpDir, tmpInputFilename, started, compared,
                 written, rollupCalls, atCall, prevRun, invocations>>

\* Delete the temporary directory: unlinkSync(tmpInputFilename);
\* rmdirSync(tmpDir).
CSE_Cleanup ==
  /\ cpc = "emitted"
  /\ files' = unlink(files, tmpInputFilename.v)
  /\ dirs' = rmdir(dirs, tmpDir.v)
  /\ cpc' = "cleaned"
  /\ UNCHANGED <<pureVars, binVars, envVars, tmpCount, run, mainVars, args, resolvedEsModules,
                 outputFilePath, tmpDir, tmpInputFilename, outputs, cseResult,
                 histVars>>

\* The instructions printed when the bundle was written out, and the
\* return: the chunk code, or nothing.
CSE_Return ==
  /\ cpc = "cleaned"
  /\ IF outputs = Undefined
     THEN /\ stdout' = Append(stdout, "\n  Open http://sokra.github.io/source-map-visualization/ ...\n")
          /\ cseResult' = Undefined
     ELSE /\ cseResult' = Str(ChunkCode(outputs.v))
          /\ UNCHANGED stdout
  /\ cpc' = "returned"
  /\ inflight' = inflight - 1
  /\ invocations' = Append(invocations,
                       [args |-> args, tree |-> atCall, tmpDir |-> tmpDir.v,
                        returned |-> cseResult'])
  /\ UNCHANGED <<pureVars, binVars, envVars, fsVars, run, pc, testIdx, failedExpectations, result,
                 thrown, returned, args, resolvedEsModules, outputFilePath, tmpDir,
                 tmpInputFilename, outputs, started, compared, written,
                 rollupCalls, atCall, prevRun>>

(* ------------------------------------------------------------------ *)
(* main: its pure parts.                                                *)
(* ------------------------------------------------------------------ *)

\* const testFileDir = dirname(testFilePath).
testFileDir == dirname(resolve(options.cwd, options.test))

\* The test the for loop is at.
test == testJson.tests[testIdx]

\* const esModulesDescription = unresolvedEsModules.join(' ').
esModulesDescription(t) == 
  JoinStr([i \in 1..Len(t.esModules) |-> RefStr(t.esModules[i])], " ")

\* The options of the pipeline for a test: { esModules, cwd, ...test.options }
\* with esModules resolved from the suite's directory.
TestOptions(t) ==
  [esModules |-> [i \in 1..Len(t.esModules) |->
                   Abs(resolve(testFileDir, t.esModules[i]))],
   cwd |-> options.cwd,
   output |-> t.options.output]

\* const expectedOutputPath = resolve(options.cwd, test.expectedOutput).
expectedOutputPath(t) == resolve(options.cwd, t.expectedOutput)

\* A bug: a missing baseline is read as the text "undefined".
LoadExpectedNoDefault(fs, ds, path) ==
  IF existsSync(fs, ds, path) THEN fs[path] ELSE "undefined"

\* The expected output: the baseline's text, or '' when there is no such
\* file.
LoadExpected(fs, ds, path) ==
  IF existsSync(fs, ds, path) THEN fs[path] ELSE ""

\* A bug: the comparison is inverted.
LooseEqual(a, b) ==
  IF a.t = "string" /\ b.t = "string" THEN a.v = b.v ELSE a.t = b.t

\* A bug: a result that is undefined is compared as the empty text.
LooseNotEqualOrEmpty(a, b) ==
  (IF a.t = "string" THEN a.v ELSE "") # (IF b.t = "string" THEN b.v ELSE "")

\* JavaScript's a != b on values that are strings or undefined: two strings
\* differ when their texts differ, undefined differs from every string.
LooseNotEqual(a, b) ==
  IF a.t = "string" /\ b.t = "string" THEN a.v # b.v ELSE a.t # b.t

\* A bug: the loop is left at the first mismatch.
BreakOnMismatch(mismatch, i) == IF mismatch THEN Len(testJson.tests) + 1 ELSE i + 1

\* The loop's next index after a test was compared: the for loop goes on
\* to the next test whatever the comparison found.
NextTest(mismatch, i) == i + 1

\* A bug: in update mode the baseline of every case is written.
updatingEveryCase(mismatch, update) == update

\* if (result != expectedOutput) { ... if (options.update) { ... } }: the
\* baseline is written for a case that differs, in update mode.
updating(mismatch, update) == mismatch /\ update

\* A bug: the old expected text is written back.
WrittenTextStale(res, expected) == expected

\* The text fs.writeFileSync(path, result, 'utf-8') writes: the result, or,
\* where the runtime accepts undefined as data, its string conversion.
WrittenText(res, expected) == IF res.t = "string" THEN res.v ELSE "undefined"

\* A bug: the next step of main does not wait for the pipeline.
NoAwait == TRUE

\* await checkSideEffects(...): main goes on once the promise is settled.
AwaitSettled == cpc \in {"returned", "threw"}

\* failedExpectations.map(s => `  ${s}`).join('\n'), as pieces.
failedExpectationsDescription(failed) ==
  JoinPieces([i \in 1..Len(failed) |-> "  " \o failed[i]], "\n")

TypeErrorFault == Thrown("fault", <<"TypeError [ERR_INVALID_ARG_TYPE]: The \"data\" argument must be of type string">>)

(* ------------------------------------------------------------------ *)
(* main.                                                                *)
(* ------------------------------------------------------------------ *)

\* --test: find and load the suite file.
Main_LoadTests ==
  /\ pc = "start"
  /\ options.test # Undefined
  /\ IF ~existsSync(files, dirs, resolve(options.cwd, options.test))
     THEN /\ thrown' = Thrown("notest", <<"Could not find the test file: ",
                                          PathStr(resolve(options.cwd, options.test)), ".">>)
          /\ pc' = "thrown"
          /\ UNCHANGED <<testIdx, failedExpectations, stdout>>
     ELSE /\ stdout' = Append(stdout, "Loading tests from "
                                       \o PathStr(resolve(options.cwd, options.test)) \o "\n")
          /\ failedExpectations' = <<>>
          /\ testIdx' = 1
          /\ pc' = "loop"
          /\ UNCHANGED thrown
  /\ UNCHANGED <<pureVars, binVars, envVars, fsVars, run, result, returned, cseVars, histVars>>

\* The head of the loop body: describe the test, assemble its options, and
\* run the pipeline.
Main_TestBegin ==
  /\ pc = "loop"
  /\ testIdx <= Len(testJson.tests)
  /\ stdout' = Append(stdout, "Testing " \o esModulesDescription(test))
  /\ Call(TestOptions(test))
  /\ started' = Append(started, testIdx)
  /\ pc' = "await"
  /\ UNCHANGED <<pureVars, binVars, envVars, fsVars, run, testIdx, failedExpectations, result, thrown,
                 returned, compared, written, prevRun, invocations>>

\* The await ends: with the result, or with the pipeline's error, which
\* main rethrows as it is.
Main_Resume ==
  /\ pc = "await"
  /\ AwaitSettled
  /\ IF cpc = "threw"
     THEN /\ thrown' = cseResult
          /\ pc' = "thrown"
          /\ UNCHANGED result
     ELSE /\ result' = cseResult
          /\ pc' = "compare"
          /\ UNCHANGED thrown
  /\ UNCHANGED <<pureVars, binVars, envVars, fsVars, run, testIdx, failedExpectations, returned,
                 stdout, cseVars, histVars>>

\* Load the expected output, check against the expectation, and in update
\* mode write the result over the baseline.
Main_Compare ==
  /\ pc = "compare"
  /\ LET path == expectedOutputPath(test)
         expectedOutput == LoadExpected(files, dirs, path)
         mismatch == LooseNotEqual(result, Str(expectedOutput))
         writes == updating(mismatch, options.update)
     IN  /\ compared' = Append(compared,
                          [idx |-> testIdx, description |-> esModulesDescription(test),
                           result |-> result, expected |-> expectedOutput,
                           path |-> path])
         /\ failedExpectations' =
              IF mismatch THEN Append(failedExpectations, esModulesDescription(test))
              ELSE failedExpectations
         /\ dirs' = IF writes THEN _recursiveMkDir(files, dirs, dirname(path)) ELSE dirs
         /\ \E rejectsUndefined \in IF writes /\ result = Undefined THEN BOOLEAN ELSE {FALSE} :
              IF rejectsUndefined
              THEN \* fs.writeFileSync throws on data that is no string or buffer
                   /\ thrown' = TypeErrorFault
                   /\ pc' = "thrown"
                   /\ UNCHANGED <<files, written, testIdx>>
              ELSE /\ files' = IF writes
                               THEN writeFile(files, path, WrittenText(result, expectedOutput))
                               ELSE files
                   /\ written' = IF writes
                                 THEN Append(written,
                                        [idx |-> testIdx, path |-> path,
                                         text |-> WrittenText(result, expectedOutput)])
                                 ELSE written
                   /\ testIdx' = NextTest(mismatch, testIdx)
                   /\ pc' = "loop"
                   /\ UNCHANGED thrown
  /\ UNCHANGED <<pureVars, binVars, envVars, tmpCount, run, result, returned, stdout, cseVars,
                 inflight, started, rollupCalls, atCall, prevRun, invocations>>

\* After the loop: report.
Main_Report ==
  /\ pc = "loop"
  /\ testIdx > Len(testJson.tests)
  /\ IF Len(failedExpectations) > 0
     THEN IF options.update
          THEN /\ stdout' = stdout \o <<"", "Test expectations updated for modules:\n"
                               \o JoinStr(failedExpectationsDescription(failedExpectations), "")
                               \o "\n">>
               /\ pc' = "done"
               /\ UNCHANGED thrown
          ELSE /\ stdout' = Append(stdout, "")
               /\ thrown' = Thrown("failed",
                              <<"Tests failed for modules:\n">>
                              \o failedExpectationsDescription(failedExpectations)
                              \o <<"\n", "\nTo update the expectations, run this command again with the --update flag.\n">>)
               /\ pc' = "thrown"
     ELSE /\ stdout' = stdout \o <<"", "All tests passed.">>
          /\ pc' = "done"
          /\ UNCHANGED thrown
  /\ UNCHANGED <<pureVars, binVars, envVars, fsVars, run, testIdx, failedExpectations, result,
                 returned, cseVars, histVars>>

\* No --test: check the modules given on the command line.
Main_Single ==
  /\ pc = "start"
  /\ options.test = Undefined
  /\ IF Len(options.modules) = 0
     THEN /\ thrown' = Thrown("nomodule", <<"You must provide at least one ES module. Use --help for usage information.">>)
          /\ pc' = "thrown"
          /\ UNCHANGED <<cseVars, inflight, rollupCalls, atCall>>
     ELSE /\ Call([esModules |-> options.modules, cwd |-> options.cwd,
                   output |-> options.output])
          /\ pc' = "single"
          /\ UNCHANGED thrown
  /\ UNCHANGED <<pureVars, binVars, envVars, fsVars, run, testIdx, failedExpectations, result,
                 returned, stdout, started, compared, written, prevRun, invocations>>

\* return checkSideEffects(...): main's promise settles as the pipeline's.
Main_SingleSettle ==
  /\ pc = "single"
  /\ AwaitSettled
  /\ IF cpc = "threw"
     THEN /\ thrown' = cseResult
          /\ pc' = "thrown"
          /\ UNCHANGED returned
     ELSE /\ returned' = cseResult
          /\ pc' = "done"
          /\ UNCHANGED thrown
  /\ UNCHANGED <<pureVars, binVars, envVars, fsVars, run, testIdx, failedExpectations, result,
                 stdout, cseVars, histVars>>

(* ------------------------------------------------------------------ *)
(* bin/check-side-effects: main's promise is handled.                   *)
(* ------------------------------------------------------------------ *)

\* e.msg: no value main throws (a string, or an Error of a collaborator)
\* has such a property.
msgOf(e) == Undefined

\* A bug: every string is printed, the empty one too.
IsString(v) == v.t = "string"

\* !!output: undefined and the empty string are falsy.
Truthy(v) == v.t = "string" /\ v.v # ""

\* A bug: the exit code is left as it is.
exitCodeKept(code) == code

\* process.exitCode = 1.
exitCodeOnReject(code) == 1

\* .then(output => !!output ? console.log(output) : null).
Bin_Then ==
  /\ bpc = "running"
  /\ pc = "done"
  /\ stdout' = IF returned # None /\ Truthy(returned)
               THEN Append(stdout, returned.v)
               ELSE stdout
  /\ bpc' = "exited"
  /\ UNCHANGED <<pureVars, envVars, fsVars, run, pc, testIdx, failedExpectations,
                 result, thrown, returned, cseVars, histVars, exitCode, stderr>>

\* .catch(e => { console.error(e.msg ? e.msg : e); process.exitCode = 1; }).
Bin_Catch ==
  /\ bpc = "running"
  /\ pc = "thrown"
  /\ stderr' = Append(stderr, IF Truthy(msgOf(thrown)) THEN msgOf(thrown) ELSE thrown)
  /\ exitCode' = exitCodeOnReject(exitCode)
  /\ bpc' = "exited"
  /\ UNCHANGED <<pureVars, envVars, fsVars, run, mainVars, cseVars, histVars>>

\* The command is run again on the file tree the last run left, with or
\* without --update.
Rerun ==
  /\ bpc = "exited"
  /\ run < MaxRuns
  /\ run' = run + 1
  /\ prevRun' = [update |-> options.update, pc |-> pc,
                 failedExpectations |-> failedExpectations]
  /\ \E u \in IF options.test = Undefined THEN {FALSE} ELSE BOOLEAN :
       options' = [options EXCEPT !.update = u]
  /\ pc' = "start"
  /\ testIdx' = 0
  /\ failedExpectations' = <<>>
  /\ result' = None
  /\ thrown' = None
  /\ returned' = None
  /\ stdout' = <<>>
  /\ cpc' = "idle"
  /\ args' = None
  /\ resolvedEsModules' = <<>>
  /\ outputFilePath' = Undefined
  /\ tmpDir' = Undefined
  /\ tmpInputFilename' = Undefined
  /\ outputs' = Undefined
  /\ cseResult' = None
  /\ inflight' = 0
  /\ started' = <<>>
  /\ compared' = <<>>
  /\ written' = <<>>
  /\ rollupCalls' = 0
  /\ atCall' = [files |-> files, dirs |-> dirs]
  /\ bpc' = "running"
  /\ exitCode' = 0
  /\ stderr' = <<>>
  /\ invocations' = <<>>
  /\ UNCHANGED <<pureVars, testJson, bundler, fsVars>>

Next ==
  \/ CSE_Validate
  \/ CSE_WriteEntry
  \/ CSE_Rollup
  \/ CSE_Write
  \/ CSE_Generate
  \/ CSE_Cleanup
  \/ CSE_Return
  \/ Main_LoadTests
  \/ Main_TestBegin
  \/ Main_Resume
  \/ Main_Compare
  \/ Main_Report
  \/ Main_Single
  \/ Main_SingleSettle
  \/ Bin_Then
  \/ Bin_Catch
  \/ Rerun

Spec == Init /\ [][Next]_vars

(* ------------------------------------------------------------------ *)
(* The synthetic entry on its own: checkSideEffects from the resolution *)
(* of the paths to the data of the entry, for each platform.            *)
(* ------------------------------------------------------------------ *)

\* The command is not running.
ProgIdle ==
  /\ options = [test |-> Undefined, update |-> FALSE, cwd |-> Cwd, modules |-> <<>>,
                output |-> Undefined]
  /\ testJson = [tests |-> <<>>]
  /\ bundler = [e \in EntryTexts |-> [rollup |-> "ok", emit |-> "ok", output |-> <<Chunk("")>>]]
  /\ files = InitFiles
  /\ dirs = InitDirs
  /\ NothingRun
  /\ pc = "idle"
  /\ bpc = "idle"

\* The esModules lists given.
EntryModLists == UNION { [1..n -> EntryRefs] : n \in 0..MaxModules }

InitEntry ==
  /\ platform \in Platforms
  /\ entryModules \in EntryModLists
  /\ entryStage = "given"
  /\ entryResolved = <<>>
  /\ entryWritten = <<>>
  /\ RuleIdle
  /\ FlagsIdle
  /\ ProgIdle

\* const resolvedEsModules = esModules.map(...).
Entry_Resolve ==
  /\ entryStage = "given"
  /\ entryResolved' = ResolvedEsModulesText(platform, CwdText(platform), entryModules)
  /\ entryStage' = "resolved"
  /\ UNCHANGED <<platform, entryModules, entryWritten, progVars, ruleVars, flagVars>>

\* writeFileSync(tmpInputFilename, resolvedEsModules.map(...).join('\n')).
Entry_Write ==
  /\ entryStage = "resolved"
  /\ entryWritten' = EntryData(entryResolved)
  /\ entryStage' = "written"
  /\ UNCHANGED <<platform, entryModules, entryResolved, progVars, ruleVars, flagVars>>

NextEntry ==
  \/ Entry_Resolve
  \/ Entry_Write

SpecEntry == InitEntry /\ [][NextEntry]_vars

(* ------------------------------------------------------------------ *)
(* The lint rule on its own: Rule.apply on a source file.               *)
(* ------------------------------------------------------------------ *)

\* The syntax trees of n nodes: the parent of a node is the node before it
\* or a node that one stands under, as pre-order has it.
SyntaxTrees(n) ==
  { t \in [parent : [1..n -> 0..n], kind : [1..n -> SyntaxKinds]] :
      \A i \in 1..n :
        /\ t.parent[i] < i
        /\ i > 1 =>
             LET RECURSIVE Above(_)
                 Above(j) == IF j = 0 THEN {0} ELSE {j} \cup Above(t.parent[j])
             IN  t.parent[i] \in Above(i - 1) }

\* The names of the files linted, character by character.
FileNames == { <<"s", "/", "a">>, <<"t", "/", "a">> }

\* The rule's arguments: none, a part of one file's name or of none, two
\* of which one is a part, and the empty string.
RuleArguments ==
  { <<>>, << <<"s", "/">> >>, << <<"x">> >>, << <<"x">>, <<"/", "a">> >>,
    << <<"a", "s">>, <<"s">> >>, << <<>> >> }

InitRule ==
  /\ \E n \in 0..MaxNodes : \E t \in SyntaxTrees(n) : \E f \in FileNames :
       sourceFile = [fileName |-> f, n |-> n, parent |-> t.parent, kind |-> t.kind]
  /\ ruleArguments \in RuleArguments
  /\ ruleStage = "given"
  /\ failures = <<>>
  /\ walked = FALSE
  /\ EntryIdle
  /\ FlagsIdle
  /\ ProgIdle

\* Rule.apply(sourceFile).
Rule_Apply ==
  /\ ruleStage = "given"
  /\ IF Len(ruleArguments) > 0 /\ ~someIncluded(ruleArguments, sourceFile.fileName)
     THEN \* skip this source file: paths are listed and it does not match
          /\ failures' = <<>>
          /\ walked' = FALSE
     ELSE /\ failures' = walk(sourceFile)
          /\ walked' = TRUE
  /\ ruleStage' = "applied"
  /\ UNCHANGED <<sourceFile, ruleArguments, progVars, entryVars, flagVars>>

NextRule == Rule_Apply

SpecRule == InitRule /\ [][NextRule]_vars

(* ------------------------------------------------------------------ *)
(* The flags on their own: main without --test, up to the call of       *)
(* rollup.                                                              *)
(* ------------------------------------------------------------------ *)

InitFlags ==
  /\ argv \in CommandLineFlags
  /\ parsed = None
  /\ cseOptions = None
  /\ locals = None
  /\ rollupConfig = None
  /\ flagStage = "given"
  /\ EntryIdle
  /\ RuleIdle
  /\ ProgIdle

\* Parse the command line.
Flags_Parse ==
  /\ flagStage = "given"
  /\ parsed' = minimist(argv)
  /\ flagStage' = "parsed"
  /\ UNCHANGED <<argv, cseOptions, locals, rollupConfig, progVars, entryVars, ruleVars>>

\* Assemble the options.
Flags_Assemble ==
  /\ flagStage = "parsed"
  /\ cseOptions' = AssembleOptions(parsed)
  /\ flagStage' = "assembled"
  /\ UNCHANGED <<argv, parsed, locals, rollupConfig, progVars, entryVars, ruleVars>>

\* checkSideEffects(checkSideEffectsOptions): the parameters are bound.
Flags_Bind ==
  /\ flagStage = "assembled"
  /\ locals' = BindParameters(cseOptions)
  /\ flagStage' = "bound"
  /\ UNCHANGED <<argv, parsed, cseOptions, rollupConfig, progVars, entryVars, ruleVars>>

\* Rollup input and output options.
Flags_Configure ==
  /\ flagStage = "bound"
  /\ rollupConfig' = Configure(locals)
  /\ flagStage' = "configured"
  /\ UNCHANGED <<argv, parsed, cseOptions, locals, progVars, entryVars, ruleVars>>

NextFlags ==
  \/ Flags_Parse
  \/ Flags_Assemble
  \/ Flags_Bind
  \/ Flags_Configure

SpecFlags == InitFlags /\ [][NextFlags]_vars

(* ------------------------------------------------------------------ *)
(* The command on a suite that is not in the working directory.         *)
(* ------------------------------------------------------------------ *)

\* A directory under the working directory, with a suite and modules of
\* its own.
SuiteDir == Cwd \o <<"s">>

\* --test: the suite beside the working directory's modules, and the one in
\* the directory under it, named from the working directory or from the
\* root.
SuiteFileRefs ==
  { TestFileRef, Rel(<<"s", "t.json">>), Abs(SuiteDir \o <<"t.json">>) }

\* The file tree: that of Init, and the directory with its suite and its
\* modules.
SuiteDirFiles ==
  InitFiles @@
  (SuiteDir \o <<"t.json">> :> "{tests}") @@
  (SuiteDir \o <<"a.js">> :> "export const a = 2;") @@
  (SuiteDir \o <<"b.js">> :> "window.b = 2;")

\* The entries the bundler can be handed from either directory.
SuiteDirEntryTexts ==
  { EntryText(ResolvedEsModules(d, l)) :
      d \in {Cwd, SuiteDir},
      l \in { m \in ModLists :
                MissingModules(InitFiles, InitDirs, ResolvedEsModules(Cwd, m)) = <<>> } }

InitSuiteDir ==
  /\ options \in
       { [test |-> t, update |-> u, cwd |-> Cwd, modules |-> <<>>, output |-> Undefined] :
           t \in SuiteFileRefs, u \in BOOLEAN }
       \cup { c \in CommandLines : c.test = Undefined }
  /\ testJson \in IF options.test = Undefined
                  THEN {[tests |-> <<>>]}
                  ELSE {[tests |-> <<t>>] : t \in Tests}
  /\ bundler \in [SuiteDirEntryTexts -> BundlerOutcomes]
  /\ \A e \in SuiteDirEntryTexts :
       e \notin { EntryText(ResolvedEsModules(
                              IF options.test = Undefined THEN Cwd
                              ELSE dirname(resolve(options.cwd, options.test)), l)) :
                    l \in {options.modules}
                           \cup {testJson.tests[i].esModules : i \in 1..Len(testJson.tests)} }
         => bundler[e] = [rollup |-> "ok", emit |-> "ok", output |-> <<Chunk("")>>]
  /\ files = SuiteDirFiles
  /\ dirs = InitDirs \cup {SuiteDir}
  /\ NothingRun
  /\ pc = "start"
  /\ bpc = "running"
  /\ PureIdle

SpecSuiteDir == InitSuiteDir /\ [][Next]_vars

(* ------------------------------------------------------------------ *)
(* Properties.                                                          *)
(* ------------------------------------------------------------------ *)

\* The scratch directory and the synthetic entry of the current activation
\* of checkSideEffects are gone from the file tree.
ScratchReleased ==
  /\ tmpInputFilename.v \notin DOMAIN files
  /\ tmpDir.v \notin dirs

\* C1: when the bundling step (graph build, write or generate) raises after
\* the synthetic entry was created, the entry file and its scratch
\* directory are deleted by the time the failure reaches the caller.
C1_ScratchReleasedOnFault ==
  (cpc = "threw" /\ tmpDir # Undefined) => ScratchReleased

\* The resolved modules of the current activation that do not exist, in
\* input order.
MissingOfCall ==
  LET resolved == [i \in 1..Len(args.esModules) |-> resolve(args.cwd, args.esModules[i])]
  IN  SelectSeq(resolved, LAMBDA m : m \notin DOMAIN atCall.files /\ m \notin atCall.dirs)

\* C2: when at least one resolved module does not exist, checkSideEffects
\* fails before the scratch directory or the synthetic entry is created and
\* before the bundler is invoked, and the message holds every missing
\* resolved path, in input order.
C2_MissingModulesFailFirst ==
  (cpc \notin {"idle", "called"} /\ MissingOfCall # <<>>) =>
    /\ cpc = "threw"
    /\ cseResult.kind = "missing"
    /\ tmpDir = Undefined
    /\ tmpInputFilename = Undefined
    /\ rollupCalls = 0
    /\ files = atCall.files
    /\ dirs = atCall.dirs
    /\ SelectSeq(cseResult.msg, LAMBDA piece : \E i \in 1..Len(MissingOfCall) :
                                   piece = PathStr(MissingOfCall[i]))
         = [i \in 1..Len(MissingOfCall) |-> PathStr(MissingOfCall[i])]

\* A failure that names two missing modules, with a module that exists
\* between them in the input.
C2_Witness ==
  /\ cpc = "threw"
  /\ cseResult.kind = "missing"
  /\ Len(MissingOfCall) = 2
  /\ Len(args.esModules) = 3

\* The residual text of a bundle, stated on its own: the codes of the
\* entries that are not assets, in emission order, one per line.
RECURSIVE CodesOf(_)
CodesOf(out) ==
  IF out = <<>> THEN <<>>
  ELSE IF out[1].isAsset THEN CodesOf(Tail(out))
  ELSE <<out[1].code.v>> \o CodesOf(Tail(out))

RECURSIVE Lines(_)
Lines(ls) ==
  IF ls = <<>> THEN ""
  ELSE IF Len(ls) = 1 THEN ls[1]
  ELSE ls[1] \o "\n" \o Lines(Tail(ls))

\* A result differs from a baseline text: it is no text, or another text.
Differs(res, text) == res.t # "string" \/ res.v # text

\* The extraction result of a test case, from the bundler's outcome for its
\* modules: nothing when the case sets an output target.
TrueResult(t) ==
  IF t.options.output # Undefined THEN Undefined
  ELSE Str(Lines(CodesOf(
         bundler[EntryText([i \in 1..Len(t.esModules) |->
                              resolve(Cwd, t.esModules[i])])].output)))

\* The baseline text of a test case in the tree as it is: '' when the file
\* is not there.
TrueBaseline(t) ==
  IF resolve(Cwd, t.expectedOutput) \in DOMAIN files
  THEN files[resolve(Cwd, t.expectedOutput)]
  ELSE ""

\* The descriptions of the comparisons that found a difference, in order.
FailedOf(cmp) ==
  LET bad == SelectSeq(cmp, LAMBDA c : Differs(c.result, c.expected))
  IN  [i \in 1..Len(bad) |-> esModulesDescription(testJson.tests[bad[i].idx])]

\* The for loop of a test-suite run has ended.
AfterLoop ==
  /\ options.test # Undefined
  /\ pc \in {"loop", "done", "thrown"}
  /\ testIdx > Len(testJson.tests)

\* C3: after the loop the list of failed cases is exactly the descriptions
\* of the cases whose extraction result differs from their baseline text,
\* in declaration order; outside update mode the run throws if and only if
\* the list is not empty, and the message names every failed case.
C3_FailedListExact ==
  AfterLoop =>
    /\ Len(compared) = Len(testJson.tests)
    /\ \A k \in 1..Len(compared) : compared[k].idx = k
    /\ failedExpectations = FailedOf(compared)
    /\ ~options.update =>
         /\ \A k \in 1..Len(compared) :
              /\ compared[k].result = TrueResult(testJson.tests[k])
              /\ compared[k].expected = TrueBaseline(testJson.tests[k])
         /\ pc # "loop" =>
              /\ (pc = "thrown") <=> (failedExpectations # <<>>)
              /\ pc = "thrown" =>
                   /\ thrown.kind = "failed"
                   /\ SelectSeq(thrown.msg,
                                LAMBDA piece : \E i \in 1..Len(failedExpectations) :
                                   piece = "  " \o failedExpectations[i])
                        = [i \in 1..Len(failedExpectations) |->
                             "  " \o failedExpectations[i]]

\* A run outside update mode of two cases: the first matches its baseline
\* and is absent from the list, the second differs and is the list; the run
\* has thrown.
C3_Witness ==
  /\ AfterLoop
  /\ run = 1
  /\ ~options.update
  /\ pc = "thrown"
  /\ Len(compared) = 2
  /\ ~Differs(compared[1].result, compared[1].expected)
  /\ Differs(compared[2].result, compared[2].expected)
  /\ failedExpectations = <<esModulesDescription(testJson.tests[2])>>

C5_UpdateOverwritesBaseline ==
  (options.test # Undefined /\ options.update) =>
    /\ \A k \in 1..Len(compared) :
         Differs(compared[k].result, compared[k].expected) =>
           \E w \in 1..Len(written) :
             /\ written[w].idx = k
             /\ written[w].path = resolve(Cwd, testJson.tests[k].expectedOutput)
             /\ Str(written[w].text) = compared[k].result
             /\ dirname(written[w].path) \in dirs
    /\ pc = "thrown" => (cpc = "threw" /\ thrown = cseResult)
    /\ (pc = "done" /\ failedExpectations # <<>>) =>
         \E i \in 1..Len(stdout) :
           stdout[i] = "Test expectations updated for modules:\n"
                         \o Lines([j \in 1..Len(failedExpectations) |->
                                     "  " \o failedExpectations[j]])
                         \o "\n"

\* This run is outside update mode and follows at once a run in update mode
\* of the same suite that completed.
AfterUpdateRun ==
  /\ options.test # Undefined
  /\ prevRun # None
  /\ prevRun.update
  /\ prevRun.pc = "done"
  /\ ~options.update

\* No two cases of the suite share a baseline path.
DistinctBaselines ==
  \A i, j \in 1..Len(testJson.tests) :
    i # j => resolve(Cwd, testJson.tests[i].expectedOutput)
               # resolve(Cwd, testJson.tests[j].expectedOutput)

\* No case of the suite sets an output target.
NoOutputTargets ==
  \A i \in 1..Len(testJson.tests) : testJson.tests[i].options.output = Undefined

\* C6 as stated, for any test suite that keeps its results in memory (an
\* output target in a case is C5's matter): a run outside update mode that
\* follows a completed run in update mode reports no failed case and does
\* not throw.
C6_RoundTripAnySuite ==
  (AfterUpdateRun /\ NoOutputTargets) =>
    (failedExpectations = <<>> /\ pc # "thrown")

\* C6, amended: for a test suite whose cases have distinct baseline paths and
\* set no output target, a run outside update mode that follows a completed
\* run in update mode reports no failed case and does not throw.
C6_RoundTrip ==
  (AfterUpdateRun /\ DistinctBaselines /\ NoOutputTargets) =>
    (failedExpectations = <<>> /\ pc # "thrown")

\* The update run rewrote the baselines of both cases of a suite, one of
\* them in a directory it had to make, and the run after it passed.
C6_Witness ==
  /\ AfterUpdateRun
  /\ DistinctBaselines
  /\ NoOutputTargets
  /\ Len(prevRun.failedExpectations) = 2
  /\ pc = "done"
  /\ Len(compared) = 2

\* C7: a missing baseline is no error: the expected text is '', the case
\* passes exactly when the result is the empty string; and every comparison
\* is by exact equality of the result with the baseline's text.
C7_MissingBaselineIsEmpty ==
  [][pc = "compare" =>
       /\ Len(compared') = Len(compared) + 1
       /\ compared'[Len(compared')].expected = TrueBaseline(test)
       /\ (failedExpectations' = failedExpectations)
            <=> (result.t = "string" /\ result.v = TrueBaseline(test))
       /\ resolve(Cwd, test.expectedOutput) \notin DOMAIN files =>
            /\ compared'[Len(compared')].expected = ""
            /\ (failedExpectations' = failedExpectations) <=> (result = Str(""))
            /\ ~options.update => (pc' = "loop" /\ files' = files /\ dirs' = dirs)
    ]_vars

\* A case with no baseline file and an empty result has passed, and the
\* baseline is still not there.
C7_Witness ==
  /\ options.test # Undefined
  /\ ~options.update
  /\ pc = "loop"
  /\ Len(compared) = 1
  /\ resolve(Cwd, testJson.tests[1].expectedOutput) \notin DOMAIN files
  /\ compared[1].expected = ""
  /\ compared[1].result = Str("")
  /\ failedExpectations = <<>>

\* C8: the cases run one at a time in declaration order: at most one
\* pipeline invocation is in flight, and when the invocation of a case
\* starts every case before it has been invoked, compared and, in update
\* mode, written.
C8_OneCaseAtATime ==
  /\ inflight \in {0, 1}
  /\ started = [i \in 1..Len(started) |-> i]
  /\ options.test # Undefined =>
       /\ inflight = 1 => pc = "await"
       /\ pc = "await" =>
            /\ Len(started) = testIdx
            /\ Len(compared) = testIdx - 1
            /\ \A k \in 1..Len(compared) :
                 (options.update /\ Differs(compared[k].result, compared[k].expected))
                   => \E w \in 1..Len(written) : written[w].idx = k
       /\ pc # "await" => Len(compared) >= Len(started) - 1

\* The second case's invocation is in flight, after the first case was
\* compared and its baseline written.
C8_Witness ==
  /\ options.test # Undefined
  /\ options.update
  /\ pc = "await"
  /\ inflight = 1
  /\ testIdx = 2
  /\ Len(written) = 1
  /\ cpc = "bundled"

\* The synthetic entry of the current activation is in the tree, in its
\* scratch directory, and imports the resolved modules.
EntryPresent ==
  /\ tmpDir # Undefined
  /\ tmpDir.v \in dirs
  /\ tmpInputFilename = Str(tmpDir.v \o <<"index.js">>)
  /\ tmpInputFilename.v \in DOMAIN files
  /\ files[tmpInputFilename.v] = EntryText(resolvedEsModules)

\* C9: on a successful invocation, in either output mode, the synthetic
\* entry is created after the modules were validated and before the bundler
\* runs, it is there while the bundler builds and emits, and the file and
\* its scratch directory are deleted after write/generate and before the
\* result is returned.
C9_EntryScopedToBundling ==
  /\ cpc \in {"called", "validated"} =>
       /\ tmpDir = Undefined
       /\ tmpInputFilename = Undefined
       /\ rollupCalls = 0
       /\ files = atCall.files
       /\ dirs = atCall.dirs
  /\ cpc = "rollup" =>
       /\ MissingOfCall = <<>>
       /\ rollupCalls = 0
       /\ EntryPresent
  /\ cpc \in {"bundled", "emitted"} =>
       /\ rollupCalls = 1
       /\ EntryPresent
  /\ cpc = "emitted" => cseResult = None
  /\ cpc \in {"cleaned", "returned"} =>
       /\ rollupCalls = 1
       /\ ScratchReleased
  /\ cpc = "cleaned" => cseResult = None

\* A suite's first case returned its result in memory and its second case
\* has returned after writing to disk, the scratch of both released.
C9_Witness ==
  /\ options.test # Undefined
  /\ Len(compared) = 1
  /\ compared[1].result.t = "string"
  /\ cpc = "returned"
  /\ outputFilePath # Undefined
  /\ tmpCount = 2
  /\ ScratchReleased
  /\ \A d \in dirs : Len(d) < 2 \/ d[1] # "tmp"

\* C10: exactly one output mode is active: with an output target the bundle
\* and a source map are written and nothing is returned; without one
\* nothing is written and the residual text is returned, the code of the
\* chunks that are not assets joined in emission order.  (Stated of the
\* moment of the return, before the caller goes on.)
C10_ExactlyOneOutputMode ==
  (cpc = "returned" /\ pc \in {"await", "single"}) =>
    IF args.output # Undefined
    THEN /\ cseResult = Undefined
         /\ outputs = Undefined
         /\ DOMAIN files = DOMAIN atCall.files
                             \cup {resolve(args.cwd, args.output),
                                   MapPath(resolve(args.cwd, args.output))}
         /\ \A q \in DOMAIN atCall.files :
              q # resolve(args.cwd, args.output)
                /\ q # MapPath(resolve(args.cwd, args.output))
                => files[q] = atCall.files[q]
         /\ files[resolve(args.cwd, args.output)]
              = Lines(CodesOf(bundler[EntryText(resolvedEsModules)].output))
                  \o "\n//# sourceMappingURL="
    ELSE /\ cseResult
              = Str(Lines(CodesOf(bundler[EntryText(resolvedEsModules)].output)))
         /\ files = atCall.files
         /\ dirs = atCall.dirs

\* A suite's first case wrote its bundle to disk and returned nothing; its
\* second case returned the code of two chunks, the asset between them
\* left out.
C10_Witness ==
  /\ options.test # Undefined
  /\ Len(compared) = 1
  /\ compared[1].result = Undefined
  /\ <<"w", "o.js.map">> \in DOMAIN files
  /\ cpc = "returned"
  /\ pc = "await"
  /\ args.output = Undefined
  /\ cseResult = Str("a;\nb;")

\* The lines of a text: what stands between its newlines.
RECURSIVE LinesOfText(_)
LinesOfText(text) ==
  IF \A k \in 1..Len(text) : text[k] # "\n" THEN <<text>>
  ELSE LET nl == CHOOSE k \in 1..Len(text) :
                   text[k] = "\n" /\ \A j \in 1..(k - 1) : text[j] # "\n"
       IN  <<SubSeq(text, 1, nl - 1)>> \o LinesOfText(SubSeq(text, nl + 1, Len(text)))

\* An import statement that names path.resolve(cwd, m) with forward slashes
\* for its backslashes.
ImportOf(pf, m) ==
  LET native == resolveText(pf, CwdText(pf), m)
  IN  <<"import '">>
      \o [k \in 1..Len(native) |-> IF native[k] = "\\" THEN "/" ELSE native[k]]
      \o <<"';">>

\* C11: the synthetic entry holds one bare import statement for each module
\* reference, in input order, one on each line, naming the resolved path
\* with every backslash replaced by a forward slash; it has as many lines
\* as there are references, duplicates included.
C11_EntryOneImportPerModule ==
  entryStage = "written" =>
    /\ Cardinality({ k \in 1..Len(entryWritten) : entryWritten[k] = "import '" })
         = Len(entryModules)
    /\ Len(entryModules) > 0 =>
         /\ Len(LinesOfText(entryWritten)) = Len(entryModules)
         /\ \A i \in 1..Len(entryModules) :
              LinesOfText(entryWritten)[i] = ImportOf(platform, entryModules[i])
    /\ \A k \in 1..Len(entryWritten) : entryWritten[k] # "\\"

\* The entry of a list that names one module twice, by a path with two
\* backslashes in it: two lines, both with forward slashes only.
C11_Witness ==
  /\ entryStage = "written"
  /\ entryModules = << <<"/", "r", "\\", "s", "\\", "a.js">>,
                       <<"/", "r", "\\", "s", "\\", "a.js">> >>
  /\ Len(LinesOfText(entryWritten)) = 2
  /\ entryWritten[3] = "r" /\ entryWritten[4] = "/" /\ entryWritten[5] = "s"

\* A node and the nodes it stands under, the source file left out.
RECURSIVE SelfAndAncestors(_, _)
SelfAndAncestors(sf, i) ==
  IF i = 0 THEN {} ELSE {i} \cup SelfAndAncestors(sf, sf.parent[i])

\* The opaque definitions: function declaration and expression, class
\* declaration and expression, arrow function, method, interface
\* declaration.
OpaqueKinds ==
  { "FunctionDeclaration", "FunctionExpression", "ClassDeclaration", "ClassExpression",
    "ArrowFunction", "MethodDeclaration", "InterfaceDeclaration" }

\* A property or element access that is no opaque definition and stands
\* under none.
TopLevelAccess(sf, i) ==
  /\ sf.kind[i] \in { "PropertyAccessExpression", "ElementAccessExpression" }
  /\ \A a \in SelfAndAncestors(sf, i) : sf.kind[a] \notin OpaqueKinds

\* The nodes the failures are at, in the order of the list.
FailedNodes == [k \in 1..Len(failures) |-> failures[k].node]

\* C12: for every syntax tree the failures of the rule are the property and
\* element accesses that stand under no opaque definition, one failure for
\* each, in depth-first pre-order; no node inside an opaque definition is
\* reported.
C12_FailuresAreTopLevelAccesses ==
  (ruleStage = "applied" /\ walked) =>
    /\ FailedNodes = SelectSeq([i \in 1..sourceFile.n |-> i],
                               LAMBDA i : TopLevelAccess(sourceFile, i))
    /\ \A k \in 1..Len(failures) :
         \A a \in SelfAndAncestors(sourceFile, failures[k].node) :
           sourceFile.kind[a] \notin OpaqueKinds

\* A method with an access inside it, and an access after it: the one
\* failure is at the access outside the method.
C12_Witness ==
  /\ ruleStage = "applied"
  /\ walked
  /\ sourceFile.n = 3
  /\ sourceFile.kind = <<"MethodDeclaration", "PropertyAccessExpression",
                         "ElementAccessExpression">>
  /\ sourceFile.parent = <<0, 1, 0>>
  /\ FailedNodes = <<3>>

\* C13: the rule descends into a node it has failed: an access that stands
\* directly under a reported access is reported too, a top-level chain of n
\* nested accesses has n failures, and every failure carries the message
\* 'Avoid toplevel property access.'.
C13_DescendsAfterFailure ==
  (ruleStage = "applied" /\ walked) =>
    /\ \A k \in 1..Len(failures) :
         failures[k].message = "Avoid toplevel property access."
    /\ \A k \in 1..Len(failures) : \A j \in 1..sourceFile.n :
         (sourceFile.parent[j] = failures[k].node
            /\ sourceFile.kind[j] \in { "PropertyAccessExpression",
                                        "ElementAccessExpression" })
           => \E l \in 1..Len(failures) : failures[l].node = j
    /\ (\A i \in 1..sourceFile.n :
          /\ sourceFile.kind[i] \in { "PropertyAccessExpression",
                                      "ElementAccessExpression" }
          /\ sourceFile.parent[i] = i - 1)
         => Len(failures) = sourceFile.n

\* The statement a.b.c; at top level: the access a.b.c, and a.b inside it,
\* are both failed.
C13_Witness ==
  /\ ruleStage = "applied"
  /\ walked
  /\ sourceFile.kind = <<"ExpressionStatement", "PropertyAccessExpression",
                         "PropertyAccessExpression">>
  /\ sourceFile.parent = <<0, 1, 2>>
  /\ failures = << [node |-> 2, message |-> "Avoid toplevel property access."],
                   [node |-> 3, message |-> "Avoid toplevel property access."] >>

\* A text is a part of another: it stands between a beginning and an end of
\* it.
IsPartOf(part, text) ==
  \E a \in 0..Len(text) : \E b \in a..Len(text) : SubSeq(text, a + 1, b) = part

\* C14: Rule.apply returns no failure without walking the file exactly when
\* at least one path-segment argument is configured and none of them is a
\* part of the file's name; with no argument, or with one that is a part of
\* the name, the file is walked.
C14_SkipsUnlistedFiles ==
  ruleStage = "applied" =>
    /\ ~walked <=> (Len(ruleArguments) > 0
                      /\ \A i \in 1..Len(ruleArguments) :
                           ~IsPartOf(ruleArguments[i], sourceFile.fileName))
    /\ ~walked => failures = <<>>

\* A file with an access at top level whose name has no configured segment
\* in it: it was not walked and has no failure.
C14_Witness ==
  /\ ruleStage = "applied"
  /\ ruleArguments = << <<"a", "s">>, <<"s">> >>
  /\ sourceFile.fileName = <<"t", "/", "a">>
  /\ sourceFile.n = 1
  /\ sourceFile.kind[1] = "PropertyAccessExpression"
  /\ ~walked
  /\ failures = <<>>

\* C15: the exit status of the process is not zero when main failed: for
\* missing modules, a missing test file, no module given, a fault of the
\* pipeline, or a failed comparison outside update mode; and it is zero when
\* main completed without raising, an update run that rewrote baselines
\* included.
C15_ExitStatusSignalsFailure ==
  /\ bpc = "running" => exitCode = 0
  /\ bpc = "exited" =>
       /\ (cpc = "threw" /\ cseResult.kind = "missing") => exitCode # 0
       /\ (cpc = "threw" /\ cseResult.kind = "fault") => exitCode # 0
       /\ (options.test # Undefined
             /\ resolve(options.cwd, options.test) \notin DOMAIN files) => exitCode # 0
       /\ (options.test = Undefined /\ options.modules = <<>>) => exitCode # 0
       /\ (AfterLoop /\ ~options.update /\ failedExpectations # <<>>) => exitCode # 0
       /\ pc = "thrown" => exitCode # 0
       /\ pc # "thrown" => (pc = "done" /\ thrown = None /\ exitCode = 0)

\* A run outside update mode whose second case failed its comparison has
\* exited with status 1; and before it an update run that rewrote a
\* baseline had completed.
C15_Witness ==
  /\ bpc = "exited"
  /\ exitCode = 1
  /\ thrown.kind = "failed"
  /\ Len(compared) = 2
  /\ failedExpectations = <<esModulesDescription(testJson.tests[2])>>
  /\ prevRun # None
  /\ prevRun.update
  /\ prevRun.pc = "done"
  /\ prevRun.failedExpectations # <<>>

\* The residual code of the modules given on the command line, from the
\* bundler's outcome for them.
Residual ==
  Lines(CodesOf(bundler[EntryText([i \in 1..Len(options.modules) |->
                                     resolve(options.cwd, options.modules[i])])].output))

PipelineValue(f) ==
  CASE f = "pureGetters" -> ~rollupConfig.propertyReadSideEffects
    [] f = "resolveExternals" ->
         \E i \in 1..Len(rollupConfig.plugins) : rollupConfig.plugins[i] = "nodeResolve"
    [] f = "printDependencies" -> rollupConfig.printWatchFiles
    [] f = "useBuildOptimizer" ->
         \E i \in 1..Len(rollupConfig.plugins) : rollupConfig.plugins[i] = "buildOptimizer"
    [] f = "useMinifier" ->
         \E i \in 1..Len(rollupConfig.plugins) : rollupConfig.plugins[i] = "terser"
    [] f = "warnings" -> ~rollupConfig.silenced

\* The flags in fs reach the pipeline: for each that is written on the
\* command line the pipeline uses the value written; and so do --output
\* and --cwd.
FlagsReachPipeline(fs) ==
  /\ \A f \in fs :
       argv.bools[f] # "absent" => PipelineValue(f) = (argv.bools[f] = "given")
  /\ argv.cwd # Undefined => rollupConfig.resolveFrom = argv.cwd.v
  /\ argv.output # Undefined =>
       rollupConfig.file = Str(rollupConfig.resolveFrom \o "/" \o argv.output.v)
  /\ argv.output = Undefined => rollupConfig.file = Undefined

\* C17: without --test every flag (output, pure-getters, resolve-externals,
\* print-dependencies, use-build-optimizer, use-minifier, warnings, cwd)
\* sets its option of the pipeline: the value the pipeline uses is the value
\* given on the command line.
C17_EveryFlagReachesPipeline ==
  flagStage = "configured" => FlagsReachPipeline(BoolFlags)

\* C17 for the flags other than pure-getters: each of them sets its option
\* of the pipeline.
C17_OtherFlagsReachPipeline ==
  flagStage = "configured" => FlagsReachPipeline(BoolFlags \ {"pureGetters"})

\* Every flag was written with the value that is not its default, and the
\* pipeline is configured.
C17_Witness ==
  /\ flagStage = "configured"
  /\ \A f \in BoolFlags :
       argv.bools[f] = IF FlagDefault(f) THEN "negated" ELSE "given"
  /\ argv.output # Undefined
  /\ argv.cwd # Undefined
  /\ rollupConfig.plugins = <<"nodeResolve">>

FaultRaised ==
  IF bundler[EntryText(resolvedEsModules)].rollup = "fault" THEN RollupFault ELSE EmitFault

\* C19: a fault a collaborator raises during checkSideEffects reaches the
\* caller as it was raised and nothing is tried again: rollup is called at
\* most once in an invocation, and in a test-suite run the fault of a case
\* ends the run with that fault, the case neither compared nor listed as
\* failed and no later case started.
C19_FaultPropagatesUnretried ==
  /\ rollupCalls <= 1
  /\ (cpc = "threw" /\ cseResult.kind = "fault") =>
       /\ rollupCalls = 1
       /\ cseResult = FaultRaised
       /\ pc \in {"await", "single", "thrown"}
       /\ pc = "thrown" =>
            /\ thrown = cseResult
            /\ bpc = "exited" => stderr = <<FaultRaised>>
            /\ options.test # Undefined =>
                 /\ started = [i \in 1..testIdx |-> i]
                 /\ Len(compared) = testIdx - 1
                 /\ failedExpectations = FailedOf(compared)
                 /\ tmpCount <= testIdx + (run - 1) * Len(testJson.tests)

\* The second case of a suite faulted when the bundle was generated: the
\* run ended with that fault after one comparison, the first case's
\* mismatch the only one listed.
C19_Witness ==
  /\ options.test # Undefined
  /\ cpc = "threw"
  /\ cseResult = EmitFault
  /\ pc = "thrown"
  /\ thrown = EmitFault
  /\ bpc = "exited"
  /\ testIdx = 2
  /\ Len(compared) = 1
  /\ Len(failedExpectations) = 1

\* The suite's location: the directory the file named by --test is in.
SuiteLocation ==
  LET suite == resolve(options.cwd, options.test)
  IN  SubSeq(suite, 1, Len(suite) - 1)

\* The module references of the case in hand were taken from base.
ModulesResolvedFrom(base) ==
  pc \in {"await", "compare"} =>
    args.esModules = [i \in 1..Len(test.esModules) |->
                        Abs(resolve(base, test.esModules[i]))]

\* The baseline of every case compared was looked for from base.
BaselinesResolvedFrom(base) ==
  \A k \in 1..Len(compared) :
    compared[k].path = resolve(base, testJson.tests[compared[k].idx].expectedOutput)

\* C20: in a test-suite run the relative module references of a case and
\* its relative baseline path are resolved against one base directory, the
\* suite's location, wherever the working directory and the suite file are.
C20_OneBaseDirectory ==
  options.test # Undefined =>
    /\ ModulesResolvedFrom(SuiteLocation)
    /\ BaselinesResolvedFrom(SuiteLocation)

\* What the code does: the module references are resolved against the
\* suite's location, the baseline path against the working directory.
C20_ModulesFromSuiteBaselineFromCwd ==
  options.test # Undefined =>
    /\ ModulesResolvedFrom(SuiteLocation)
    /\ BaselinesResolvedFrom(options.cwd)

\* A case of the suite in the directory under the working directory was
\* compared: its module came from the suite's directory, its baseline from
\* the working directory.
C20_Witness ==
  /\ options.test = Rel(<<"s", "t.json">>)
  /\ Len(compared) = 1
  /\ args.esModules = <<Abs(<<"w", "s", "a.js">>)>>
  /\ testJson.tests[1].expectedOutput = Rel(<<"e.txt">>)
  /\ compared[1].path = <<"w", "e.txt">>

\* The paths of the baselines the suite names, from the working directory.
BaselinePaths ==
  IF options.test = Undefined THEN {}
  ELSE { resolve(options.cwd, testJson.tests[k].expectedOutput) :
           k \in 1..Len(testJson.tests) }

\* The directories a path lies in.
DirectoriesAbove(p) == { SubSeq(p, 1, n) : n \in 0..(Len(p) - 1) }

\* What a path holds in a tree of files: a text, or nothing.
Holds(fs, p) == IF p \in DOMAIN fs THEN Str(fs[p]) ELSE Undefined

\* The baseline files a step creates, removes or changes.
BaselinesTouched == { p \in BaselinePaths : Holds(files', p) # Holds(files, p) }

\* The directories of baselines a step creates or removes.
BaselineDirsTouched ==
  { d \in UNION { DirectoriesAbove(p) : p \in BaselinePaths } : (d \in dirs') # (d \in dirs) }

\* A step that touches a baseline file or a baseline's directory, or that
\* writes a baseline (be it with the text it held), is the comparison of a
\* case whose result differs from its baseline, in update mode, and touches
\* the path of that case and the directories above it only.
WritesOnlyOnMismatchInUpdate ==
  (BaselinesTouched # {} \/ BaselineDirsTouched # {} \/ Len(written') > Len(written)) =>
    /\ options.test # Undefined
    /\ options.update
    /\ pc = "compare"
    /\ Differs(result, TrueBaseline(test))
    /\ BaselinesTouched \subseteq { resolve(options.cwd, test.expectedOutput) }
    /\ BaselineDirsTouched
         \subseteq DirectoriesAbove(resolve(options.cwd, test.expectedOutput))

\* The line that lists the updated cases: the descriptions of the cases
\* whose result differed from their baseline.
UpdatedListing(cmp) ==
  "Test expectations updated for modules:\n"
    \o Lines([j \in 1..Len(FailedOf(cmp)) |-> "  " \o FailedOf(cmp)[j]])
    \o "\n"

\* A completed update run ends its output with the list of the cases that
\* differed, or with the line for a suite that passed when none did.
ListsOnlyMismatches ==
  (options.test # Undefined /\ options.update /\ pc = "done") =>
    stdout[Len(stdout)] = IF FailedOf(compared) = <<>> THEN "All tests passed."
                          ELSE UpdatedListing(compared)

\* C21: a test-suite run writes a baseline only for a case that differs from
\* its baseline and is run in update mode: outside update mode, and for a
\* matching case in update mode, no baseline file and no directory of a
\* baseline is created or changed, and a matching case is not listed as
\* updated.
C21_WritesOnlyOnMismatchInUpdate ==
  /\ [][WritesOnlyOnMismatchInUpdate]_vars
  /\ []ListsOnlyMismatches

\* An update run of two cases has completed.  The first case gave no code
\* and has no baseline: it matched, its baseline and the directory of it were
\* not made, and it is not listed.  The second differed: it was written and
\* is the list.
C21_Witness ==
  /\ options.test # Undefined
  /\ options.update
  /\ run = 1
  /\ pc = "done"
  /\ Len(compared) = 2
  /\ compared[1].result = Str("")
  /\ compared[1].expected = ""
  /\ compared[1].path = <<"w", "d", "f.txt">>
  /\ <<"w", "d", "f.txt">> \notin DOMAIN files
  /\ <<"w", "d">> \notin dirs
  /\ Differs(compared[2].result, compared[2].expected)
  /\ Len(written) = 1
  /\ written[1].idx = 2
  /\ files[compared[2].path] = compared[2].result.v
  /\ stdout[Len(stdout)] = "Test expectations updated for modules:\n"
                             \o "  " \o compared[2].description \o "\n"

\* The case of the suite at this place sets an output target.
HasOutputTarget(k) == testJson.tests[k].options.output # Undefined

\* The comparisons made of cases that set an output target.
OutputTargetComparisons ==
  { k \in 1..Len(compared) : HasOutputTarget(compared[k].idx) }

\* How many of the comparisons made were of a case that sets an output
\* target or found a text other than the baseline's.
FailingComparisons ==
  Cardinality({ k \in 1..Len(compared) :
                  \/ HasOutputTarget(compared[k].idx)
                  \/ Differs(compared[k].result, compared[k].expected) })

\* C22: a case of a suite that sets an output target has no result in
\* memory, so it is counted as failed against every baseline, be the file
\* missing, empty or of any content: a run with such a case compared never
\* reports that all tests passed, and outside update mode never completes.
C22_OutputTargetCaseNeverPasses ==
  options.test # Undefined =>
    /\ \A k \in OutputTargetComparisons :
         /\ compared[k].result = Undefined
         /\ \E m \in 1..Len(failedExpectations) :
              failedExpectations[m] = compared[k].description
    /\ Len(failedExpectations) = FailingComparisons
    /\ OutputTargetComparisons # {} =>
         /\ \A i \in 1..Len(stdout) : stdout[i] # "All tests passed."
         /\ ~options.update => pc # "done"

\* A run outside update mode of two cases that set an output target: the
\* baseline of the first is missing, that of the second holds a text.  Both
\* were counted as failed and the run has thrown the failure.
C22_Witness ==
  /\ options.test # Undefined
  /\ ~options.update
  /\ run = 1
  /\ pc = "thrown"
  /\ thrown.kind = "failed"
  /\ Len(compared) = 2
  /\ OutputTargetComparisons = {1, 2}
  /\ compared[1].path \notin DOMAIN files
  /\ compared[1].expected = ""
  /\ compared[2].expected = "a;\nb;"
  /\ Len(failedExpectations) = 2

====
